---- MODULE Spec2Model ----
(***************************************************************************)
(* dcache-kafka-exporter: the billing-record decoder (billing.rs), the     *)
(* metric collector (collector.rs), the status-message rewriter            *)
(* (message_simplifier.rs) and the ingestion loop (main.rs).               *)
(*                                                                         *)
(* Strings are sequences of bytes; a byte is written as a one-character    *)
(* string, and the two bytes of a two-byte UTF-8 character as "C3" (lead)  *)
(* and "A9" (continuation).  A JSON value is a record whose field t is the *)
(* JSON type; a JSON object is a function from its keys to JSON values.    *)
(* Rust's Option is a sequence of length 0 (None) or 1 (Some).             *)
(* Integer widths are scaled: Bits32 stands for 32 and Bits64 for 64.      *)
(***************************************************************************)
EXTENDS Integers, Sequences, FiniteSets, TLC

VARIABLES
    args,        \* main.rs Args: enable_message_count, and the prefix list handed to Collector::new
    pc,          \* "start" | "loop" | "exited" (main returned Err) | "panicked" | "done"
    source,      \* the records of the topic, in delivery order
    collector,   \* the Collector struct, once constructed
    delivered,   \* the consumer's offset: records handed to the loop so far
    msg,         \* the record (or status message) handed over last, an Option
    parsed       \* serde_json::from_str's result for that record (or the
                 \* rewritten status message), an Option

vars == <<args, source, pc, collector, delivered, msg, parsed>>

----------------------------------------------------------------------------
(* Bounds of the model *)

Bits32 == 12
Bits64 == 16
MaxRecords == 2
MaxNameChars == 3
MaxPrefixChars == 2
MaxPrefixes == 2
MaxTokens == 2

Pow2(n) == 2 ^ n

I32_MIN == 0 - Pow2(Bits32 - 1)
I32_MAX == Pow2(Bits32 - 1) - 1
U32_MAX == Pow2(Bits32) - 1
I64_MIN == 0 - Pow2(Bits64 - 1)
I64_MAX == Pow2(Bits64 - 1) - 1
U64_MAX == Pow2(Bits64) - 1

----------------------------------------------------------------------------
(* Option and Result *)

None == <<>>
Some(x) == <<x>>
IsSome(o) == Len(o) = 1
Unwrap(o) == o[1]

Ok(x) == [ok |-> TRUE, v |-> x, err |-> "", at |-> ""]
Err(e, field) == [ok |-> FALSE, v |-> None, err |-> e, at |-> field]

----------------------------------------------------------------------------
(* JSON values, as serde_json hands them to the derived visitors *)

JAbsent == [t |-> "absent"]
JNull == [t |-> "null"]
JBool(b) == [t |-> "bool", b |-> b]
JInt(n) == [t |-> "int", n |-> n]
JFloat(n) == [t |-> "float", f |-> n]   \* the number n + 1/2
JStr(s) == [t |-> "str", s |-> s]
JArr(a) == [t |-> "arr", a |-> a]       \* an array of strings
JObj(o) == [t |-> "obj", o |-> o]

Get(o, k) == IF k \in DOMAIN o THEN o[k] ELSE JAbsent

\* o with key k set to j, or removed when j is JAbsent
With(o, k, j) ==
    LET keys == IF j.t = "absent" THEN DOMAIN o \ {k} ELSE DOMAIN o \cup {k}
    IN [x \in keys |-> IF x = k THEN j ELSE o[x]]

----------------------------------------------------------------------------
(* billing.rs: field deserializers *)

\* String
DeString(j, k) ==
    CASE j.t = "str" -> Ok(j.s)
      [] j.t = "absent" -> Err("missing field", k)
      [] OTHER -> Err("invalid type", k)

\* Option<String>
DeOptString(j, k) ==
    CASE j.t \in {"absent", "null"} -> Ok(None)
      [] j.t = "str" -> Ok(Some(j.s))
      [] OTHER -> Err("invalid type", k)

\* an unsigned integer of the given maximum
DeUnsigned(j, k, max) ==
    CASE j.t = "int" /\ j.n >= 0 /\ j.n <= max -> Ok(j.n)
      [] j.t = "int" -> Err("invalid value", k)
      [] j.t = "absent" -> Err("missing field", k)
      [] OTHER -> Err("invalid type", k)

DeU32(j, k) == DeUnsigned(j, k, U32_MAX)
DeU64(j, k) == DeUnsigned(j, k, U64_MAX)

\* a signed integer of the given range
DeSigned(j, k, min, max) ==
    CASE j.t = "int" /\ j.n >= min /\ j.n <= max -> Ok(j.n)
      [] j.t = "int" -> Err("invalid value", k)
      [] j.t = "absent" -> Err("missing field", k)
      [] OTHER -> Err("invalid type", k)

\* Option<f64>: integers are accepted as floats
DeOptF64(j, k) ==
    CASE j.t \in {"absent", "null"} -> Ok(None)
      [] j.t = "int" -> Ok(Some([num |-> j.n, den |-> 1]))
      [] j.t = "float" -> Ok(Some([num |-> 2 * j.f + 1, den |-> 2]))
      [] OTHER -> Err("invalid type", k)

\* Vec<String>
DeVecString(j, k) ==
    CASE j.t = "arr" -> Ok(j.a)
      [] j.t = "absent" -> Err("missing field", k)
      [] OTHER -> Err("invalid type", k)

\* x as u32 / x as u64 of a non-negative x of the signed type
AsUnsigned(x, bits) == x % Pow2(bits)

\* dCache uses -1 for null in some places.
deserialize_u32_option(j, k) ==
    LET x == DeSigned(j, k, I32_MIN, I32_MAX)
    IN IF ~x.ok THEN x
       ELSE IF x.v < 0 THEN Ok(None) ELSE Ok(Some(AsUnsigned(x.v, Bits32)))

deserialize_u64_option(j, k) ==
    LET x == DeSigned(j, k, I64_MIN, I64_MAX)
    IN IF ~x.ok THEN x
       ELSE IF x.v < 0 THEN Ok(None) ELSE Ok(Some(AsUnsigned(x.v, Bits64)))

----------------------------------------------------------------------------
(* String literals of the source, as byte sequences *)

S_read == <<"r", "e", "a", "d">>
S_write == <<"w", "r", "i", "t", "e">>
S_p2p == <<"p", "2", "p">>
S_remove == <<"r", "e", "m", "o", "v", "e">>
S_request == <<"r", "e", "q", "u", "e", "s", "t">>
S_restore == <<"r", "e", "s", "t", "o", "r", "e">>
S_store == <<"s", "t", "o", "r", "e">>
S_transfer == <<"t", "r", "a", "n", "s", "f", "e", "r">>
S_hyphen == <<"-">>
S_empty == <<>>

----------------------------------------------------------------------------
(* billing.rs: the structs *)

\* impl Display for Direction
Direction_to_string(d) ==
    CASE d = "Read" -> S_read
      [] d = "Write" -> S_write
      [] d = "P2p" -> S_p2p

\* Direction_deserialize with the arm (Some(true), Some(_)) for P2p
Direction_deserialize_p2p_any_mode(o) ==
    LET jp == Get(o, "isP2p")
        jw == Get(o, "isWrite")
    IN IF jp.t \notin {"absent", "bool"} THEN Err("invalid type", "isP2p")
       ELSE IF jw.t \notin {"absent", "str"} THEN Err("invalid type", "isWrite")
       ELSE LET is_p2p == IF jp.t = "absent" THEN None ELSE Some(jp.b)
                is_write == IF jw.t = "absent" THEN None ELSE Some(jw.s)
            IN CASE is_p2p = Some(TRUE) /\ is_write # None -> Ok("P2p")
                 [] is_p2p = Some(FALSE) /\ is_write = Some(S_read) -> Ok("Read")
                 [] is_p2p = Some(FALSE) /\ is_write = Some(S_write) -> Ok("Write")
                 [] OTHER -> Err("Unexpected isP2p or isWrite.", "direction")

\* impl Deserialize for Direction: visit_map over the keys isP2p and isWrite of
\* the flattened record; every other key is left to the other fields.
Direction_deserialize(o) ==
    LET jp == Get(o, "isP2p")
        jw == Get(o, "isWrite")
    IN IF jp.t \notin {"absent", "bool"} THEN Err("invalid type", "isP2p")
       ELSE IF jw.t \notin {"absent", "str"} THEN Err("invalid type", "isWrite")
       ELSE LET is_p2p == IF jp.t = "absent" THEN None ELSE Some(jp.b)
                is_write == IF jw.t = "absent" THEN None ELSE Some(jw.s)
            IN CASE is_p2p = Some(TRUE) /\ is_write = Some(S_read) -> Ok("P2p")
                 [] is_p2p = Some(FALSE) /\ is_write = Some(S_read) -> Ok("Read")
                 [] is_p2p = Some(FALSE) /\ is_write = Some(S_write) -> Ok("Write")
                 [] OTHER -> Err("Unexpected isP2p or isWrite.", "direction")

\* a struct-typed field: it must be present and a JSON object
DeStructField(j, k) ==
    CASE j.t = "obj" -> Ok(j.o)
      [] j.t = "absent" -> Err("missing field", k)
      [] OTHER -> Err("invalid type", k)

ProtocolInfo_deserialize(j, k) ==
    LET o == DeStructField(j, k)
    IN IF ~o.ok THEN o
       ELSE LET host == DeString(Get(o.v, "host"), "host")
                port == DeU32(Get(o.v, "port"), "port")
                protocol == DeString(Get(o.v, "protocol"), "protocol")
                version_major == DeU32(Get(o.v, "versionMajor"), "versionMajor")
                version_minor == DeU32(Get(o.v, "versionMinor"), "versionMinor")
            IN CASE ~host.ok -> host
                 [] ~port.ok -> port
                 [] ~protocol.ok -> protocol
                 [] ~version_major.ok -> version_major
                 [] ~version_minor.ok -> version_minor
                 [] OTHER -> Ok([host |-> host.v, port |-> port.v,
                                 protocol |-> protocol.v,
                                 version_major |-> version_major.v,
                                 version_minor |-> version_minor.v])

Hsm_deserialize(j, k) ==
    LET o == DeStructField(j, k)
    IN IF ~o.ok THEN o
       ELSE LET instance == DeString(Get(o.v, "instance"), "instance")
                provider == DeString(Get(o.v, "provider"), "provider")
                type_ == DeString(Get(o.v, "type"), "type")
            IN CASE ~instance.ok -> instance
                 [] ~provider.ok -> provider
                 [] ~type_.ok -> type_
                 [] OTHER -> Ok([instance |-> instance.v, provider |-> provider.v,
                                 type_ |-> type_.v])

Status_deserialize(j, k) ==
    LET o == DeStructField(j, k)
    IN IF ~o.ok THEN o
       ELSE LET code == DeU32(Get(o.v, "code"), "code")
                m == DeString(Get(o.v, "msg"), "msg")
            IN CASE ~code.ok -> code
                 [] ~m.ok -> m
                 [] OTHER -> Ok([code |-> code.v, msg |-> m.v])

\* Cell is flattened into the record that holds it
Cell_deserialize(o) ==
    LET domain == DeString(Get(o, "cellDomain"), "cellDomain")
        name == DeString(Get(o, "cellName"), "cellName")
        type_ == DeString(Get(o, "cellType"), "cellType")
    IN CASE ~domain.ok -> domain
         [] ~name.ok -> name
         [] ~type_.ok -> type_
         [] OTHER -> Ok([domain |-> domain.v, name |-> name.v, type_ |-> type_.v])

\* the msgType tag of an internally tagged enum with the given variant names
Tag_deserialize(o, variants) ==
    LET j == Get(o, "msgType")
    IN CASE j.t = "absent" -> Err("missing field", "msgType")
         [] j.t # "str" -> Err("invalid type", "msgType")
         [] j.s \notin variants -> Err("unknown variant", "msgType")
         [] OTHER -> Ok(j.s)

\* enum MoverInfo, variant Transfer
MoverInfo_Transfer(o) ==
    LET cell == Cell_deserialize(o)
        date == DeString(Get(o, "date"), "date")
        direction == Direction_deserialize(o)
        local_endpoint == DeOptString(Get(o, "localEndpoint"), "localEndpoint")
        mean_read_bandwidth == DeOptF64(Get(o, "meanReadBandwidth"), "meanReadBandwidth")
        mean_write_bandwidth == DeOptF64(Get(o, "meanWriteBandwidth"), "meanWriteBandwidth")
        protocol_info == ProtocolInfo_deserialize(Get(o, "protocolInfo"), "protocolInfo")
        queuing_time == DeU64(Get(o, "queuingTime"), "queuingTime")
        read_active == DeOptString(Get(o, "readActive"), "readActive")
        read_idle == DeOptString(Get(o, "readIdle"), "readIdle")
        session == DeString(Get(o, "session"), "session")
        status == Status_deserialize(Get(o, "status"), "status")
        transfer_path == DeString(Get(o, "transferPath"), "transferPath")
        transfer_size == deserialize_u64_option(Get(o, "transferSize"), "transferSize")
        transfer_time == DeU64(Get(o, "transferTime"), "transferTime")
        version == DeString(Get(o, "version"), "version")
    IN CASE ~cell.ok -> cell
         [] ~date.ok -> date
         [] ~direction.ok -> direction
         [] ~local_endpoint.ok -> local_endpoint
         [] ~mean_read_bandwidth.ok -> mean_read_bandwidth
         [] ~mean_write_bandwidth.ok -> mean_write_bandwidth
         [] ~protocol_info.ok -> protocol_info
         [] ~queuing_time.ok -> queuing_time
         [] ~read_active.ok -> read_active
         [] ~read_idle.ok -> read_idle
         [] ~session.ok -> session
         [] ~status.ok -> status
         [] ~transfer_path.ok -> transfer_path
         [] ~transfer_size.ok -> transfer_size
         [] ~transfer_time.ok -> transfer_time
         [] ~version.ok -> version
         [] OTHER -> Ok([variant |-> "Transfer", cell |-> cell.v, date |-> date.v,
                         direction |-> direction.v,
                         local_endpoint |-> local_endpoint.v,
                         mean_read_bandwidth |-> mean_read_bandwidth.v,
                         mean_write_bandwidth |-> mean_write_bandwidth.v,
                         protocol_info |-> protocol_info.v,
                         queuing_time |-> queuing_time.v,
                         read_active |-> read_active.v, read_idle |-> read_idle.v,
                         session |-> session.v, status |-> status.v,
                         transfer_path |-> transfer_path.v,
                         transfer_size |-> transfer_size.v,
                         transfer_time |-> transfer_time.v, version |-> version.v])

MoverInfo_deserialize(j, k) ==
    LET o == DeStructField(j, k)
    IN IF ~o.ok THEN o
       ELSE LET tag == Tag_deserialize(o.v, {S_transfer})
            IN IF ~tag.ok THEN tag ELSE MoverInfo_Transfer(o.v)

\* Option<MoverInfo>
DeOptMoverInfo(j, k) ==
    IF j.t \in {"absent", "null"} THEN Ok(None)
    ELSE LET m == MoverInfo_deserialize(j, k)
         IN IF m.ok THEN Ok(Some(m.v)) ELSE m

----------------------------------------------------------------------------
(* billing.rs: enum Message, internally tagged by msgType *)

Message_Remove(o) ==
    LET billing_path == DeString(Get(o, "billingPath"), "billingPath")
        cell == Cell_deserialize(o)
        file_size == DeU64(Get(o, "fileSize"), "fileSize")
        pnfsid == DeString(Get(o, "pnfsid"), "pnfsid")
        queuing_time == DeU64(Get(o, "queuingTime"), "queuingTime")
        session == DeString(Get(o, "session"), "session")
        status == Status_deserialize(Get(o, "status"), "status")
        storage_info == DeOptString(Get(o, "storageInfo"), "storageInfo")
        subject == DeVecString(Get(o, "subject"), "subject")
        transaction == DeOptString(Get(o, "transaction"), "transaction")
    IN CASE ~billing_path.ok -> billing_path
         [] ~cell.ok -> cell
         [] ~file_size.ok -> file_size
         [] ~pnfsid.ok -> pnfsid
         [] ~queuing_time.ok -> queuing_time
         [] ~session.ok -> session
         [] ~status.ok -> status
         [] ~storage_info.ok -> storage_info
         [] ~subject.ok -> subject
         [] ~transaction.ok -> transaction
         [] OTHER -> Ok([variant |-> "Remove", billing_path |-> billing_path.v,
                         cell |-> cell.v, file_size |-> file_size.v,
                         pnfsid |-> pnfsid.v, queuing_time |-> queuing_time.v,
                         session |-> session.v, status |-> status.v,
                         storage_info |-> storage_info.v, subject |-> subject.v,
                         transaction |-> transaction.v])

Message_Request(o) ==
    LET billing_path == DeString(Get(o, "billingPath"), "billingPath")
        cell == Cell_deserialize(o)
        client == DeString(Get(o, "client"), "client")
        client_chain == DeString(Get(o, "clientChain"), "clientChain")
        file_size == DeU64(Get(o, "fileSize"), "fileSize")
        mapped_gid == deserialize_u32_option(Get(o, "mappedGID"), "mappedGID")
        mapped_uid == deserialize_u32_option(Get(o, "mappedUID"), "mappedUID")
        mover_info == DeOptMoverInfo(Get(o, "moverInfo"), "moverInfo")
        owner == DeOptString(Get(o, "owner"), "owner")
        pnfsid == DeOptString(Get(o, "pnfsid"), "pnfsid")
        queuing_time == DeU64(Get(o, "queuingTime"), "queuingTime")
        session == DeString(Get(o, "session"), "session")
        session_duration == DeU64(Get(o, "sessionDuration"), "sessionDuration")
        status == Status_deserialize(Get(o, "status"), "status")
        storage_info == DeOptString(Get(o, "storageInfo"), "storageInfo")
        subject == DeVecString(Get(o, "subject"), "subject")
        transfer_path == DeString(Get(o, "transferPath"), "transferPath")
    IN CASE ~billing_path.ok -> billing_path
         [] ~cell.ok -> cell
         [] ~client.ok -> client
         [] ~client_chain.ok -> client_chain
         [] ~file_size.ok -> file_size
         [] ~mapped_gid.ok -> mapped_gid
         [] ~mapped_uid.ok -> mapped_uid
         [] ~mover_info.ok -> mover_info
         [] ~owner.ok -> owner
         [] ~pnfsid.ok -> pnfsid
         [] ~queuing_time.ok -> queuing_time
         [] ~session.ok -> session
         [] ~session_duration.ok -> session_duration
         [] ~status.ok -> status
         [] ~storage_info.ok -> storage_info
         [] ~subject.ok -> subject
         [] ~transfer_path.ok -> transfer_path
         [] OTHER -> Ok([variant |-> "Request", billing_path |-> billing_path.v,
                         cell |-> cell.v, client |-> client.v,
                         client_chain |-> client_chain.v, file_size |-> file_size.v,
                         mapped_gid |-> mapped_gid.v, mapped_uid |-> mapped_uid.v,
                         mover_info |-> mover_info.v, owner |-> owner.v,
                         pnfsid |-> pnfsid.v, queuing_time |-> queuing_time.v,
                         session |-> session.v,
                         session_duration |-> session_duration.v,
                         status |-> status.v, storage_info |-> storage_info.v,
                         subject |-> subject.v, transfer_path |-> transfer_path.v])

Message_Restore(o) ==
    LET billing_path == DeString(Get(o, "billingPath"), "billingPath")
        cell == Cell_deserialize(o)
        date == DeString(Get(o, "date"), "date")
        file_size == DeU64(Get(o, "fileSize"), "fileSize")
        hsm == Hsm_deserialize(Get(o, "hsm"), "hsm")
        locations == DeVecString(Get(o, "locations"), "locations")
        pnfsid == DeString(Get(o, "pnfsid"), "pnfsid")
        queuing_time == DeU64(Get(o, "queuingTime"), "queuingTime")
        session == DeString(Get(o, "session"), "session")
        status == Status_deserialize(Get(o, "status"), "status")
        storage_info == DeString(Get(o, "storageInfo"), "storageInfo")
        transaction == DeString(Get(o, "transaction"), "transaction")
        transfer_time == DeU64(Get(o, "transferTime"), "transferTime")
        version == DeString(Get(o, "version"), "version")
    IN CASE ~billing_path.ok -> billing_path
         [] ~cell.ok -> cell
         [] ~date.ok -> date
         [] ~file_size.ok -> file_size
         [] ~hsm.ok -> hsm
         [] ~locations.ok -> locations
         [] ~pnfsid.ok -> pnfsid
         [] ~queuing_time.ok -> queuing_time
         [] ~session.ok -> session
         [] ~status.ok -> status
         [] ~storage_info.ok -> storage_info
         [] ~transaction.ok -> transaction
         [] ~transfer_time.ok -> transfer_time
         [] ~version.ok -> version
         [] OTHER -> Ok([variant |-> "Restore", billing_path |-> billing_path.v,
                         cell |-> cell.v, date |-> date.v, file_size |-> file_size.v,
                         hsm |-> hsm.v, locations |-> locations.v,
                         pnfsid |-> pnfsid.v, queuing_time |-> queuing_time.v,
                         session |-> session.v, status |-> status.v,
                         storage_info |-> storage_info.v,
                         transaction |-> transaction.v,
                         transfer_time |-> transfer_time.v, version |-> version.v])

Message_Store(o) ==
    LET billing_path == DeString(Get(o, "billingPath"), "billingPath")
        cell == Cell_deserialize(o)
        date == DeString(Get(o, "date"), "date")
        file_size == DeU64(Get(o, "fileSize"), "fileSize")
        hsm == Hsm_deserialize(Get(o, "hsm"), "hsm")
        locations == DeVecString(Get(o, "locations"), "locations")
        status == Status_deserialize(Get(o, "status"), "status")
        queuing_time == DeU64(Get(o, "queuingTime"), "queuingTime")
        transfer_time == DeU64(Get(o, "transferTime"), "transferTime")
        session == DeString(Get(o, "session"), "session")
        storage_info == DeString(Get(o, "storageInfo"), "storageInfo")
        pnfsid == DeString(Get(o, "pnfsid"), "pnfsid")
        transaction == DeString(Get(o, "transaction"), "transaction")
    IN CASE ~billing_path.ok -> billing_path
         [] ~cell.ok -> cell
         [] ~date.ok -> date
         [] ~file_size.ok -> file_size
         [] ~hsm.ok -> hsm
         [] ~locations.ok -> locations
         [] ~status.ok -> status
         [] ~queuing_time.ok -> queuing_time
         [] ~transfer_time.ok -> transfer_time
         [] ~session.ok -> session
         [] ~storage_info.ok -> storage_info
         [] ~pnfsid.ok -> pnfsid
         [] ~transaction.ok -> transaction
         [] OTHER -> Ok([variant |-> "Store", billing_path |-> billing_path.v,
                         cell |-> cell.v, date |-> date.v, file_size |-> file_size.v,
                         hsm |-> hsm.v, locations |-> locations.v,
                         status |-> status.v, queuing_time |-> queuing_time.v,
                         transfer_time |-> transfer_time.v, session |-> session.v,
                         storage_info |-> storage_info.v, pnfsid |-> pnfsid.v,
                         transaction |-> transaction.v])

Message_Transfer(o) ==
    LET billing_path == DeString(Get(o, "billingPath"), "billingPath")
        cell == Cell_deserialize(o)
        date == DeString(Get(o, "date"), "date")
        file_size == DeU64(Get(o, "fileSize"), "fileSize")
        initiator == DeString(Get(o, "initiator"), "initiator")
        direction == Direction_deserialize(o)
        local_endpoint == DeOptString(Get(o, "localEndpoint"), "localEndpoint")
        mean_read_bandwidth == DeOptF64(Get(o, "meanReadBandwidth"), "meanReadBandwidth")
        mean_write_bandwidth == DeOptF64(Get(o, "meanWriteBandwidth"), "meanWriteBandwidth")
        pnfsid == DeString(Get(o, "pnfsid"), "pnfsid")
        protocol_info == ProtocolInfo_deserialize(Get(o, "protocolInfo"), "protocolInfo")
        queuing_time == DeU64(Get(o, "queuingTime"), "queuingTime")
        read_active == DeOptString(Get(o, "readActive"), "readActive")
        session == DeString(Get(o, "session"), "session")
        status == Status_deserialize(Get(o, "status"), "status")
        transfer_time == DeU64(Get(o, "transferTime"), "transferTime")
        storage_info == DeString(Get(o, "storageInfo"), "storageInfo")
        transfer_size == deserialize_u64_option(Get(o, "transferSize"), "transferSize")
        transfer_path == DeString(Get(o, "transferPath"), "transferPath")
        write_active == DeOptString(Get(o, "writeActive"), "writeActive")
        subject == DeVecString(Get(o, "subject"), "subject")
    IN CASE ~billing_path.ok -> billing_path
         [] ~cell.ok -> cell
         [] ~date.ok -> date
         [] ~file_size.ok -> file_size
         [] ~initiator.ok -> initiator
         [] ~direction.ok -> direction
         [] ~local_endpoint.ok -> local_endpoint
         [] ~mean_read_bandwidth.ok -> mean_read_bandwidth
         [] ~mean_write_bandwidth.ok -> mean_write_bandwidth
         [] ~pnfsid.ok -> pnfsid
         [] ~protocol_info.ok -> protocol_info
         [] ~queuing_time.ok -> queuing_time
         [] ~read_active.ok -> read_active
         [] ~session.ok -> session
         [] ~status.ok -> status
         [] ~transfer_time.ok -> transfer_time
         [] ~storage_info.ok -> storage_info
         [] ~transfer_size.ok -> transfer_size
         [] ~transfer_path.ok -> transfer_path
         [] ~write_active.ok -> write_active
         [] ~subject.ok -> subject
         [] OTHER -> Ok([variant |-> "Transfer", billing_path |-> billing_path.v,
                         cell |-> cell.v, date |-> date.v, file_size |-> file_size.v,
                         initiator |-> initiator.v, direction |-> direction.v,
                         local_endpoint |-> local_endpoint.v,
                         mean_read_bandwidth |-> mean_read_bandwidth.v,
                         mean_write_bandwidth |-> mean_write_bandwidth.v,
                         pnfsid |-> pnfsid.v, protocol_info |-> protocol_info.v,
                         queuing_time |-> queuing_time.v,
                         read_active |-> read_active.v, session |-> session.v,
                         status |-> status.v, transfer_time |-> transfer_time.v,
                         storage_info |-> storage_info.v,
                         transfer_size |-> transfer_size.v,
                         transfer_path |-> transfer_path.v,
                         write_active |-> write_active.v, subject |-> subject.v])

\* the variant names of enum Message under rename_all = "camelCase"
MessageVariants == {S_remove, S_request, S_restore, S_store, S_transfer}

\* Message_deserialize with a variant that takes every other msgType
Message_deserialize_with_other(o) ==
    LET j == Get(o, "msgType")
    IN CASE j.t = "absent" -> Err("missing field", "msgType")
         [] j.t # "str" -> Err("invalid type", "msgType")
         [] j.s = S_request -> Message_Request(o)
         [] j.s = S_restore -> Message_Restore(o)
         [] j.s = S_store -> Message_Store(o)
         [] j.s = S_transfer -> Message_Transfer(o)
         [] OTHER -> Message_Remove(o)

\* Message::deserialize on a JSON object
Message_deserialize(o) ==
    LET tag == Tag_deserialize(o, MessageVariants)
    IN CASE ~tag.ok -> tag
         [] tag.v = S_remove -> Message_Remove(o)
         [] tag.v = S_request -> Message_Request(o)
         [] tag.v = S_restore -> Message_Restore(o)
         [] tag.v = S_store -> Message_Store(o)
         [] tag.v = S_transfer -> Message_Transfer(o)

\* serde_json::from_str::<Message> on a text: text.json is what the text parses
\* to, "invalid" when it is not JSON, "other" when it is JSON but not an object.
from_str(text) ==
    CASE text.json = "invalid" -> Err("syntax", "")
      [] text.json = "other" -> Err("invalid type", "")
      [] text.json = "object" -> Message_deserialize(text.o)

----------------------------------------------------------------------------
(* Rust str operations on byte sequences; byte offsets count from 0 *)

\* the bytes 0x80..0xBF, which continue a multi-byte character
ContinuationBytes == {"A9"}

\* str::is_char_boundary
is_char_boundary(s, i) ==
    \/ i = 0
    \/ i = Len(s)
    \/ i < Len(s) /\ s[i + 1] \notin ContinuationBytes

\* str::starts_with
starts_with(s, p) == Len(p) <= Len(s) /\ SubSeq(s, 1, Len(p)) = p

\* &s[a .. b]: panics unless a <= b <= s.len() and both lie on character boundaries
str_index(s, a, b) ==
    IF a <= b /\ b <= Len(s) /\ is_char_boundary(s, a) /\ is_char_boundary(s, b)
    THEN [panic |-> FALSE, v |-> SubSeq(s, a + 1, b)]
    ELSE [panic |-> TRUE, v |-> S_empty]

----------------------------------------------------------------------------
(* collector.rs: Collector::shorten_cell_name *)

\* the closure handed to find_map, for one prefix:
\* [panic, some, v]: it panicked, or returned Some(v), or returned None
shorten_closure(prefix, cell) ==
    IF Len(prefix) < Len(cell) /\ starts_with(cell, prefix)
    THEN LET next == str_index(cell, Len(prefix), Len(prefix) + 1)
         IN IF next.panic THEN [panic |-> TRUE, some |-> FALSE, v |-> S_empty]
            ELSE IF next.v = S_hyphen
                 THEN [panic |-> FALSE, some |-> TRUE, v |-> prefix]
                 ELSE [panic |-> FALSE, some |-> FALSE, v |-> S_empty]
    ELSE [panic |-> FALSE, some |-> FALSE, v |-> S_empty]

\* iter().find_map(closure): the first Some in list order, from index i on
RECURSIVE find_map(_, _, _)
find_map(prefixes, cell, i) ==
    IF i > Len(prefixes) THEN [panic |-> FALSE, some |-> FALSE, v |-> S_empty]
    ELSE LET r == shorten_closure(prefixes[i], cell)
         IN IF r.panic \/ r.some THEN r ELSE find_map(prefixes, cell, i + 1)

\* [panic, v]: the label for the cell name, unless the slice panicked
shorten_cell_name(shortened_cell_names, cell) ==
    LET r == find_map(shortened_cell_names, cell, 1)
    IN [panic |-> r.panic, v |-> IF r.some THEN r.v ELSE cell]

----------------------------------------------------------------------------
(* The regex crate, as far as message_simplifier.rs uses it.  A pattern is    *)
(* its syntax tree; a text is a sequence of ASCII characters.                 *)

Digit == {"0", "1", "2", "3", "4", "5", "6", "7", "8", "9"}
Lower == {"a", "b", "c", "d", "e", "f", "g", "h", "i", "j", "k", "l", "m",
          "n", "o", "p", "q", "r", "s", "t", "u", "v", "w", "x", "y", "z"}
Upper == {"A", "B", "C", "D", "E", "F", "G", "H", "I", "J", "K", "L", "M",
          "N", "O", "P", "Q", "R", "S", "T", "U", "V", "W", "X", "Y", "Z"}
Alnum == Digit \cup Lower \cup Upper
Word == Alnum \cup {"_"}
Space == {" "}
HexDigit == Digit \cup {"a", "b", "c", "d", "e", "f", "A", "B", "C", "D", "E", "F"}

Lit(c) == [op |-> "class", neg |-> FALSE, set |-> {c}]
Class(S) == [op |-> "class", neg |-> FALSE, set |-> S]
NClass(S) == [op |-> "class", neg |-> TRUE, set |-> S]
Cat(rs) == [op |-> "cat", rs |-> rs]
Alt(rs) == [op |-> "alt", rs |-> rs]
Star(r) == [op |-> "star", rs |-> <<r>>]
Plus(r) == Cat(<<r, Star(r)>>)
Opt(r) == [op |-> "opt", rs |-> <<r>>]
Rep(r, n) == Cat([k \in 1..n |-> r])
Lits(cs) == Cat([k \in 1..Len(cs) |-> Lit(cs[k])])
Look(kind) == [op |-> "look", kind |-> kind]
\* \x followed by the two characters d1 d2, which the parser reads as hex digits
HexEscape(d1, d2) == [op |-> "hex", digits |-> <<d1, d2>>]

\* whether the parser accepts the pattern: a \x escape needs two hex digits
RECURSIVE Regex_valid(_)
Regex_valid(r) ==
    CASE r.op = "hex" -> \A k \in 1..2 : r.digits[k] \in HexDigit
      [] r.op \in {"cat", "alt", "star", "opt"} ->
            \A k \in 1..Len(r.rs) : Regex_valid(r.rs[k])
      [] OTHER -> TRUE

\* Regex::new
Regex_new(re) == IF Regex_valid(re) THEN Ok(re) ELSE Err("regex parse error", "")

IsWordAt(s, i) == i >= 1 /\ i <= Len(s) /\ s[i] \in Word

\* a look-around assertion at offset i (between s[i] and s[i + 1])
LookHolds(kind, s, i) ==
    CASE kind = "b" -> IsWordAt(s, i) # IsWordAt(s, i + 1)
      [] kind = "B" -> IsWordAt(s, i) = IsWordAt(s, i + 1)
      [] kind = "<" -> ~IsWordAt(s, i) /\ IsWordAt(s, i + 1)
      [] kind = ">" -> IsWordAt(s, i) /\ ~IsWordAt(s, i + 1)

\* a without the elements that occur earlier in it
Dedup(a) ==
    LET keep == {k \in 1..Len(a) : \A j \in 1..(k - 1) : a[j] # a[k]}
    IN [n \in 1..Cardinality(keep) |->
           a[CHOOSE k \in keep : Cardinality({j \in keep : j < k}) = n - 1]]

\* a class repeated greedily from offset i: the longest run first, then shorter ones
EndsClassStar(c, s, i) ==
    LET Matches(k) == (s[k] \in c.set) # c.neg
        run == CHOOSE j \in i..Len(s) :
                   /\ \A k \in (i + 1)..j : Matches(k)
                   /\ j = Len(s) \/ ~Matches(j + 1)
    IN [n \in 1..(run - i + 1) |-> run - n + 1]

\* The offsets at which a match of r that starts at offset i can end, in the
\* order of preference of a backtracking search (leftmost-first semantics):
\* the first one is where the match ends.
RECURSIVE Ends(_, _, _), EndsCat(_, _, _, _), EndsAll(_, _, _, _)
Ends(r, s, i) ==
    CASE r.op = "class" ->
            IF i < Len(s) /\ ((s[i + 1] \in r.set) # r.neg) THEN <<i + 1>> ELSE <<>>
      [] r.op = "look" -> IF LookHolds(r.kind, s, i) THEN <<i>> ELSE <<>>
      [] r.op = "cat" -> EndsCat(r.rs, 1, s, <<i>>)
      [] r.op = "alt" ->
            LET RECURSIVE Each(_)
                Each(k) == IF k > Len(r.rs) THEN <<>>
                           ELSE Ends(r.rs[k], s, i) \o Each(k + 1)
            IN Dedup(Each(1))
      [] r.op = "opt" -> Dedup(Ends(r.rs[1], s, i) \o <<i>>)
      [] r.op = "star" ->
            IF r.rs[1].op = "class" THEN EndsClassStar(r.rs[1], s, i)
            ELSE LET once == SelectSeq(Ends(r.rs[1], s, i), LAMBDA p : p > i)
                 IN Dedup(EndsAll(r, s, once, 1) \o <<i>>)
      [] r.op = "hex" -> <<>>
\* the ends of rs[k], rs[k + 1], ... in a row, started at each offset of from
EndsCat(rs, k, s, from) ==
    IF k > Len(rs) \/ from = <<>> THEN from
    ELSE EndsCat(rs, k + 1, s, Dedup(EndsAll(rs[k], s, from, 1)))
\* the ends of r started at from[k], from[k + 1], ..., in that order
EndsAll(r, s, from, k) ==
    IF k > Len(from) THEN <<>>
    ELSE Ends(r, s, from[k]) \o EndsAll(r, s, from, k + 1)

\* where the match of re that starts at offset i ends; i itself when there is none
\* (no pattern of RULES matches the empty text)
MatchEnd(re, s, i) ==
    LET e == Ends(re, s, i)
    IN IF e = <<>> THEN i ELSE e[1]

----------------------------------------------------------------------------
(* message_simplifier.rs *)

\* [a-zA-Z0-9]([a-zA-Z0-9-]*[a-zA-Z0-9])?
DnsLabel == Cat(<<Class(Alnum), Opt(Cat(<<Star(Class(Alnum \cup {"-"})), Class(Alnum)>>))>>)

\* [0-9a-f]+(:[0-9a-f]+)+
Ipv6Groups ==
    Cat(<<Plus(Class(Digit \cup {"a", "b", "c", "d", "e", "f"})),
          Plus(Cat(<<Lit(":"), Plus(Class(Digit \cup {"a", "b", "c", "d", "e", "f"}))>>))>>)

\* \d+(\.\d+){3}
Ipv4Quad == Cat(<<Plus(Class(Digit)), Rep(Cat(<<Lit("."), Plus(Class(Digit))>>), 3)>>)

\* The order matters, e.g. integer must come after IP addresses.
RULES == <<
    [name |-> <<"u", "r", "l">>,
     re |-> Cat(<<Plus(Class(Word)), Lits(<<":", "/", "/">>), Plus(NClass(Space)),
                  NClass(Space \cup {",", ".", ";", ":", "?", "(", ")", "[", "]"})>>),
     replacer |-> "None"],
    [name |-> <<"p", "o", "o", "l", "-", "n", "a", "m", "e">>,
     re |-> Cat(<<Lits(<<"P", "o", "o", "l", "N", "a", "m", "e", "=">>),
                  Plus(Class(Alnum \cup {"_", "-"}))>>),
     replacer |-> "None"],
    [name |-> <<"p", "o", "o", "l", "-", "a", "d", "d", "r", "e", "s", "s">>,
     re |-> Cat(<<Lits(<<"P", "o", "o", "l", "A", "d", "d", "r", "e", "s", "s", "=">>),
                  Plus(Class({":", "a", "l", "n", "u", "m", "_", "@", "/", "-"}))>>),
     replacer |-> "None"],
    [name |-> <<"q", "u", "o", "t", "e", "d", "-", "r", "e", "f">>,
     re |-> Cat(<<Lit(">"), Plus(Class(Alnum \cup {"_", "@", "-"})), Lit("<")>>),
     replacer |-> "None"],
    [name |-> <<"d", "a", "t", "e", "-", "a", "n", "d", "-", "t", "i", "m", "e">>,
     re |-> Cat(<<Alt(<<Lits(<<"M", "o", "n">>), Lits(<<"T", "u", "e">>),
                        Lits(<<"W", "e", "d">>), Lits(<<"T", "h", "u">>),
                        Lits(<<"F", "r", "i">>), Lits(<<"S", "a", "t">>),
                        Lits(<<"S", "u", "n">>)>>),
                  Lit(" "), Rep(Class(Word), 3), Lit(" "), Plus(Class(Digit)), Lit(" "),
                  Rep(Class(Digit), 2), Lit(":"), Rep(Class(Digit), 2), Lit(":"),
                  Rep(Class(Digit), 2), Lit(" "), Plus(Class(Word)), Lit(" "),
                  Rep(Class(Digit), 4)>>),
     replacer |-> "None"],
    [name |-> <<"c", "h", "e", "c", "k", "s", "u", "m">>,
     re |-> Cat(<<Lit("["), Plus(Class(Digit)), Lit(":"), HexEscape("+", "\\"), Lit("]")>>),
     replacer |-> "None"],
    [name |-> <<"i", "p", "v", "4", "-", "a", "d", "d", "r", "e", "s", "s", "-",
                "a", "n", "d", "-", "p", "o", "r", "t">>,
     re |-> Cat(<<Look("b"), Ipv4Quad, Lit(":"), Plus(Class(Digit))>>),
     replacer |-> "None"],
    [name |-> <<"i", "p", "v", "4", "-", "a", "d", "d", "r", "e", "s", "s">>,
     re |-> Cat(<<Look("b"), Ipv4Quad>>),
     replacer |-> "None"],
    [name |-> <<"i", "p", "v", "6", "-", "a", "d", "d", "r", "e", "s", "s", "-",
                "a", "n", "d", "-", "p", "o", "r", "t">>,
     re |-> Cat(<<Lit("["), Ipv6Groups, Lit("]"), Lit(":"), Plus(Class(Digit)), Look("b")>>),
     replacer |-> "None"],
    [name |-> <<"i", "p", "v", "6", "-", "a", "d", "d", "r", "e", "s", "s">>,
     re |-> Cat(<<Lit("["), Ipv6Groups, Lit("]")>>),
     replacer |-> "None"],
    [name |-> <<"i", "p", "v", "6", "-", "a", "d", "d", "r", "e", "s", "s">>,
     re |-> Cat(<<Look("b"), Ipv6Groups>>),
     replacer |-> "None"],
    [name |-> <<"d", "c", "a", "c", "h", "e", "-", "c", "e", "l", "l">>,
     re |-> Cat(<<Lit("["), Lit(">"), Star(Class(Alnum \cup {"_", ":", ".", "@", "-"})),
                  Lit("]")>>),
     replacer |-> "None"],
    [name |-> <<"s", "i", "z", "e">>,
     re |-> Cat(<<Look("b"), Plus(Class(Digit)),
                  Opt(Cat(<<Lit("."), Plus(Class(Digit))>>)), Lit(" "),
                  Opt(Cat(<<Class({"k", "M", "G", "T", "E"}), Opt(Lit("i"))>>)),
                  Lit("B"), Look("b")>>),
     replacer |-> "None"],
    [name |-> <<"d", "i", "s", "t", "i", "n", "g", "u", "i", "s", "h", "e", "d", "-",
                "n", "a", "m", "e">>,
     re |-> Cat(<<Look("<"),
                  Plus(Cat(<<Plus(Class(Word)), Lit("="),
                             Plus(Alt(<<NClass({","}), Lits(<<"\\", ",">>)>>)),
                             Lit(",")>>)),
                  Alt(<<Cat(<<Class({"c", "C"}), Class({"n", "N"})>>),
                        Cat(<<Class({"d", "D"}), Class({"c", "C"})>>),
                        Class({"c", "C"})>>),
                  Lit("="), Plus(Class(Word)), Look(">")>>),
     replacer |-> "None"],
    [name |-> <<"p", "n", "f", "s", "i", "d">>,
     re |-> Cat(<<Look("b"), Rep(Class(Digit \cup {"A", "B", "C", "D", "E", "F"}), 36),
                  Look("b")>>),
     replacer |-> "None"],
    [name |-> <<"p", "a", "t", "h">>,
     re |-> Cat(<<Look("B"), Lit("/"), Plus(NClass({" ", "<", ">"})), Look("b")>>),
     replacer |-> "None"],
    [name |-> <<"d", "n", "s", "-", "d", "o", "m", "a", "i", "n">>,
     re |-> Cat(<<Look("<"), Plus(Cat(<<DnsLabel, Lit(".")>>)), DnsLabel, Look(">")>>),
     replacer |-> "domain_name_replacer"],
    [name |-> <<"i", "n", "t">>,
     re |-> Cat(<<Look("b"), Plus(Class(Digit)), Look("b")>>),
     replacer |-> "None"] >>

\* the text after the last "." of m: the capture group "last" of the dns-domain rule
RECURSIVE LastLabel(_)
LastLabel(m) ==
    IF \E k \in 1..Len(m) : m[k] = "." THEN LastLabel(Tail(m)) ELSE m

domain_name_replacer(m) ==
    IF \E k \in 1..Len(LastLabel(m)) : LastLabel(m)[k] \in Upper
    THEN m                                         \* Likely Java exception.
    ELSE <<"<", "d", "o", "m", "a", "i", "n", "-", "n", "a", "m", "e", ">">>

\* MessageRewriteRule::new: [panic, v]; Regex::new(re_str).unwrap() panics on a
\* pattern the parser refuses
MessageRewriteRule_new(name, re, replacer) ==
    LET compiled == Regex_new(re)
    IN [panic |-> ~compiled.ok,
        v |-> [re |-> re,
               replacer |-> IF replacer = "None"
                            THEN [kind |-> "Const", s |-> <<"<">> \o name \o <<">">>]
                            ELSE [kind |-> "Dependent", s |-> S_empty]]]

\* impl Replacer for &Replacement
Replacement_replace_append(replacement, m) ==
    IF replacement.kind = "Const" THEN replacement.s ELSE domain_name_replacer(m)

\* Regex::replace_all with a &Replacement: every non-overlapping match, leftmost
\* first, is replaced by what replace_append gives for it; pos is the offset the
\* search goes on from.
RECURSIVE replace_from(_, _, _, _)
replace_from(re, s, replacement, pos) ==
    LET starts == {i \in pos..(Len(s) - 1) : MatchEnd(re, s, i) > i}
    IN IF starts = {} THEN SubSeq(s, pos + 1, Len(s))
       ELSE LET i == CHOOSE x \in starts : \A y \in starts : x <= y
                e == MatchEnd(re, s, i)
            IN SubSeq(s, pos + 1, i)
                  \o Replacement_replace_append(replacement, SubSeq(s, i + 1, e))
                  \o replace_from(re, s, replacement, e)

\* MessageRewriteRule::rewrite
MessageRewriteRule_rewrite(rule, m) ==
    replace_from(rule.re, m, rule.replacer, 0)

\* MessageRewriteRules::new: [panic, rules]
MessageRewriteRules_new ==
    LET made == [k \in 1..Len(RULES) |->
                    MessageRewriteRule_new(RULES[k].name, RULES[k].re, RULES[k].replacer)]
    IN [panic |-> \E k \in 1..Len(made) : made[k].panic,
        rules |-> [k \in 1..Len(made) |-> made[k].v]]

\* MessageRewriteRules::rewrite: the fold over the rules from rule k on
RECURSIVE rewrite_fold(_, _, _)
rewrite_fold(rules, acc, k) ==
    IF k > Len(rules) THEN acc
    ELSE LET next == MessageRewriteRule_rewrite(rules[k], acc)
         IN IF Len(next) >= 0 THEN rewrite_fold(rules, next, k + 1) ELSE next

rewrite(rules, m) == rewrite_fold(rules, m, 1)

----------------------------------------------------------------------------
(* collector.rs: metric vectors.  An IntCounterVec maps each label tuple that *)
(* has been used to its count; a HistogramVec maps it to the bag of values    *)
(* observed (a function from value to number of observations).                *)

NoMetrics == <<>>

CounterValue(vec, labels) == IF labels \in DOMAIN vec THEN vec[labels] ELSE 0

\* with_label_values(labels).inc_by(n): the u64 counter wraps around
inc_by(vec, labels, n) ==
    [l \in DOMAIN vec \cup {labels} |->
        IF l = labels THEN (CounterValue(vec, l) + n) % Pow2(Bits64)
        ELSE vec[l]]

\* with_label_values(labels).inc()
inc(vec, labels) == inc_by(vec, labels, 1)

Observations(vec, labels) == IF labels \in DOMAIN vec THEN vec[labels] ELSE <<>>

BagCount(bag, x) == IF x \in DOMAIN bag THEN bag[x] ELSE 0

\* with_label_values(labels).observe(x)
observe(vec, labels, x) ==
    [l \in DOMAIN vec \cup {labels} |->
        IF l = labels
        THEN [y \in DOMAIN Observations(vec, l) \cup {x} |->
                 BagCount(Observations(vec, l), y) + (IF y = x THEN 1 ELSE 0)]
        ELSE vec[l]]

\* ms as f64 / 1000.0, as a fraction
Seconds(ms) == [num |-> ms, den |-> 1000]

\* u32::to_string: the decimal digits of n
RECURSIVE u32_to_string(_)
u32_to_string(n) ==
    IF n < 10 THEN <<ToString(n)>>
    ELSE u32_to_string(n \div 10) \o <<ToString(n % 10)>>

----------------------------------------------------------------------------
(* collector.rs: Collector *)

\* the struct before Collector::new has run
Unconstructed ==
    [shortened_cell_names |-> <<>>,
     remove_count |-> NoMetrics, remove_bytes |-> NoMetrics,
     request_count |-> NoMetrics, request_session_seconds |-> NoMetrics,
     restore_count |-> NoMetrics, restore_bytes |-> NoMetrics,
     restore_seconds |-> NoMetrics,
     store_count |-> NoMetrics, store_bytes |-> NoMetrics,
     store_seconds |-> NoMetrics,
     transfer_count |-> NoMetrics, transfer_bytes |-> NoMetrics,
     transfer_seconds |-> NoMetrics,
     transfer_mean_read_bandwidth_bytes_per_second |-> NoMetrics,
     transfer_mean_write_bandwidth_bytes_per_second |-> NoMetrics,
     message_count |-> NoMetrics,
     unparsed_count |-> 0,
     message_rewrite_rules |-> None]

\* Collector::new: [panic, v]
Collector_new(enable_message_count, shortened_cell_names) ==
    LET rules == IF enable_message_count THEN MessageRewriteRules_new
                 ELSE [panic |-> FALSE, rules |-> <<>>]
    IN [panic |-> rules.panic,
        v |-> [Unconstructed EXCEPT
                  !.shortened_cell_names = shortened_cell_names,
                  !.message_rewrite_rules =
                      IF enable_message_count THEN Some(rules.rules) ELSE None]]

\* Collector::proj: [panic, v], v the label values of the message for its family
proj(self, index) ==
    LET name == shorten_cell_name(self.shortened_cell_names, index.cell.name)
    IN [panic |-> name.panic,
        v |-> CASE index.variant \in {"Remove", "Request"} ->
                     <<name.v, index.cell.domain, index.cell.type_,
                       u32_to_string(index.status.code),
                       IF IsSome(index.storage_info) THEN Unwrap(index.storage_info)
                       ELSE S_empty>>
                [] index.variant \in {"Restore", "Store"} ->
                     <<name.v, index.cell.domain, index.cell.type_,
                       u32_to_string(index.status.code),
                       index.storage_info,
                       index.hsm.instance, index.hsm.provider, index.hsm.type_>>
                [] index.variant = "Transfer" ->
                     <<name.v, index.cell.domain, index.cell.type_,
                       u32_to_string(index.status.code),
                       Direction_to_string(index.direction),
                       index.storage_info>>]

\* Collector::update_message_count_metric: [panic, v], v the collector afterwards
update_message_count_metric(self, index) ==
    IF ~IsSome(self.message_rewrite_rules) THEN [panic |-> FALSE, v |-> self]
    ELSE IF index.status.msg = S_empty THEN [panic |-> FALSE, v |-> self]
    ELSE LET m == rewrite(Unwrap(self.message_rewrite_rules), index.status.msg)
             name == shorten_cell_name(self.shortened_cell_names, index.cell.name)
         IN [panic |-> name.panic,
             v |-> IF name.panic THEN self
                   ELSE [self EXCEPT !.message_count =
                            inc(@, <<name.v, index.cell.domain, index.cell.type_,
                                     u32_to_string(index.status.code), m>>)]]

\* Option::unwrap_or
unwrap_or(o, d) == IF IsSome(o) THEN Unwrap(o) ELSE d

\* update_metrics_arm with the Request arm also counting the mover info of the
\* request as a transfer
update_metrics_arm_counting_mover_info(self, m, l) ==
    CASE m.variant = "Remove" ->
            [self EXCEPT !.remove_count = inc(@, l),
                         !.remove_bytes = inc_by(@, l, m.file_size)]
      [] m.variant = "Request" ->
            [self EXCEPT !.request_count = inc(@, l),
                         !.request_session_seconds =
                             observe(@, l, Seconds(m.session_duration)),
                         !.transfer_count =
                             IF IsSome(m.mover_info) THEN inc(@, l) ELSE @]
      [] m.variant = "Restore" ->
            [self EXCEPT !.restore_count = inc(@, l),
                         !.restore_bytes = inc_by(@, l, m.file_size),
                         !.restore_seconds = observe(@, l, Seconds(m.transfer_time))]
      [] m.variant = "Store" ->
            [self EXCEPT !.store_count = inc(@, l),
                         !.store_bytes = inc_by(@, l, m.file_size),
                         !.store_seconds = observe(@, l, Seconds(m.transfer_time))]
      [] m.variant = "Transfer" ->
            [self EXCEPT !.transfer_count = inc(@, l),
                         !.transfer_bytes = inc_by(@, l, unwrap_or(m.transfer_size, 0)),
                         !.transfer_seconds = observe(@, l, Seconds(m.transfer_time)),
                         !.transfer_mean_read_bandwidth_bytes_per_second =
                             IF IsSome(m.mean_read_bandwidth)
                             THEN observe(@, l, Unwrap(m.mean_read_bandwidth)) ELSE @,
                         !.transfer_mean_write_bandwidth_bytes_per_second =
                             IF IsSome(m.mean_write_bandwidth)
                             THEN observe(@, l, Unwrap(m.mean_write_bandwidth)) ELSE @]

\* the match of Collector::update_metrics, for a message whose labels are l
update_metrics_arm(self, m, l) ==
    CASE m.variant = "Remove" ->
            [self EXCEPT !.remove_count = inc(@, l),
                         !.remove_bytes = inc_by(@, l, m.file_size)]
      [] m.variant = "Request" ->
            [self EXCEPT !.request_count = inc(@, l),
                         !.request_session_seconds =
                             observe(@, l, Seconds(m.session_duration))]
      [] m.variant = "Restore" ->
            [self EXCEPT !.restore_count = inc(@, l),
                         !.restore_bytes = inc_by(@, l, m.file_size),
                         !.restore_seconds = observe(@, l, Seconds(m.transfer_time))]
      [] m.variant = "Store" ->
            [self EXCEPT !.store_count = inc(@, l),
                         !.store_bytes = inc_by(@, l, m.file_size),
                         !.store_seconds = observe(@, l, Seconds(m.transfer_time))]
      [] m.variant = "Transfer" ->
            [self EXCEPT !.transfer_count = inc(@, l),
                         !.transfer_bytes = inc_by(@, l, unwrap_or(m.transfer_size, 0)),
                         !.transfer_seconds = observe(@, l, Seconds(m.transfer_time)),
                         !.transfer_mean_read_bandwidth_bytes_per_second =
                             IF IsSome(m.mean_read_bandwidth)
                             THEN observe(@, l, Unwrap(m.mean_read_bandwidth)) ELSE @,
                         !.transfer_mean_write_bandwidth_bytes_per_second =
                             IF IsSome(m.mean_write_bandwidth)
                             THEN observe(@, l, Unwrap(m.mean_write_bandwidth)) ELSE @]

\* Collector::update_metrics: [panic, v].  The first proj of the arm slices the
\* cell name before any metric is touched, so a panic leaves the collector as it was.
update_metrics(self, m) ==
    LET l == proj(self, m)
    IN IF l.panic THEN [panic |-> TRUE, v |-> self]
       ELSE update_message_count_metric(update_metrics_arm(self, m, l.v), m)

\* process_message_match with the Err arm only logging
process_message_match_not_counting(self, r) ==
    IF r.ok
    THEN update_metrics(self, r.v)
    ELSE [panic |-> FALSE, v |-> self]

\* the match of Collector::process_message on from_str's result r
process_message_match(self, r) ==
    IF r.ok
    THEN update_metrics(self, r.v)
    ELSE [panic |-> FALSE,
          v |-> [self EXCEPT !.unparsed_count = (@ + 1) % Pow2(Bits64)]]

\* Collector::process_message: [panic, v], v the collector afterwards
process_message(self, msg_str) == process_message_match(self, from_str(msg_str))

----------------------------------------------------------------------------
(* Records of the event source.  A record is [utf8, json, o]: whether its     *)
(* bytes are UTF-8, what the text parses to ("invalid", "other" for JSON that *)
(* is not an object, "object"), and the object.                               *)

X == <<"x">>
CellDomain == <<"d">>
CellType == <<"t">>
StorageInfo == <<"s", "i">>
N_pool_1 == <<"p", "o", "o", "l", "-", "1">>
N_pool_e == <<"p", "o", "o", "l", "C3", "A9">>          \* "pool" and a two-byte character
N_door == <<"d", "o", "o", "r">>
P_pool == <<"p", "o", "o", "l">>
M_failed == <<"n", "o", " ", "p", "o", "o", "l", " ", "4", "2">>

StatusObj(code, m) == JObj([code |-> JInt(code), msg |-> JStr(m)])
HsmObj == JObj([instance |-> JStr(X), provider |-> JStr(X), type |-> JStr(X)])
ProtocolInfoObj ==
    JObj([host |-> JStr(X), port |-> JInt(0), protocol |-> JStr(X),
          versionMajor |-> JInt(1), versionMinor |-> JInt(0)])

BaseRemove ==
    [msgType |-> JStr(S_remove), billingPath |-> JStr(X),
     cellDomain |-> JStr(CellDomain), cellName |-> JStr(N_pool_1),
     cellType |-> JStr(CellType), fileSize |-> JInt(1024), pnfsid |-> JStr(X),
     queuingTime |-> JInt(0), session |-> JStr(X), status |-> StatusObj(0, S_empty),
     storageInfo |-> JStr(StorageInfo), subject |-> JArr(<<>>),
     transaction |-> JStr(X)]

BaseRequest ==
    [msgType |-> JStr(S_request), billingPath |-> JStr(X),
     cellDomain |-> JStr(CellDomain), cellName |-> JStr(N_pool_1),
     cellType |-> JStr(CellType), client |-> JStr(X), clientChain |-> JStr(X),
     fileSize |-> JInt(1024), mappedGID |-> JInt(100), mappedUID |-> JInt(100),
     owner |-> JStr(X), pnfsid |-> JStr(X), queuingTime |-> JInt(0),
     session |-> JStr(X), sessionDuration |-> JInt(1500),
     status |-> StatusObj(0, S_empty), storageInfo |-> JStr(StorageInfo),
     subject |-> JArr(<<>>), transferPath |-> JStr(X)]

BaseRestore ==
    [msgType |-> JStr(S_restore), billingPath |-> JStr(X),
     cellDomain |-> JStr(CellDomain), cellName |-> JStr(N_pool_1),
     cellType |-> JStr(CellType), date |-> JStr(X), fileSize |-> JInt(1024),
     hsm |-> HsmObj, locations |-> JArr(<<>>), pnfsid |-> JStr(X),
     queuingTime |-> JInt(0), session |-> JStr(X), status |-> StatusObj(0, S_empty),
     storageInfo |-> JStr(StorageInfo), transaction |-> JStr(X),
     transferTime |-> JInt(2000), version |-> JStr(X)]

BaseStore ==
    [msgType |-> JStr(S_store), billingPath |-> JStr(X),
     cellDomain |-> JStr(CellDomain), cellName |-> JStr(N_pool_1),
     cellType |-> JStr(CellType), date |-> JStr(X), fileSize |-> JInt(1024),
     hsm |-> HsmObj, locations |-> JArr(<<>>), status |-> StatusObj(0, S_empty),
     queuingTime |-> JInt(0), transferTime |-> JInt(2000), session |-> JStr(X),
     storageInfo |-> JStr(StorageInfo), pnfsid |-> JStr(X), transaction |-> JStr(X)]

BaseTransfer ==
    [msgType |-> JStr(S_transfer), billingPath |-> JStr(X),
     cellDomain |-> JStr(CellDomain), cellName |-> JStr(N_pool_1),
     cellType |-> JStr(CellType), date |-> JStr(X), fileSize |-> JInt(1024),
     initiator |-> JStr(X), isP2p |-> JBool(FALSE), isWrite |-> JStr(S_read),
     pnfsid |-> JStr(X), protocolInfo |-> ProtocolInfoObj, queuingTime |-> JInt(0),
     session |-> JStr(X), status |-> StatusObj(0, S_empty),
     transferTime |-> JInt(2000), storageInfo |-> JStr(StorageInfo),
     transferSize |-> JInt(1000), transferPath |-> JStr(X), subject |-> JArr(<<>>)]

BaseMoverInfo ==
    [msgType |-> JStr(S_transfer), cellDomain |-> JStr(CellDomain),
     cellName |-> JStr(N_pool_1), cellType |-> JStr(CellType), date |-> JStr(X),
     isP2p |-> JBool(FALSE), isWrite |-> JStr(S_write),
     protocolInfo |-> ProtocolInfoObj, queuingTime |-> JInt(0), session |-> JStr(X),
     status |-> StatusObj(0, S_empty), transferPath |-> JStr(X),
     transferSize |-> JInt(1000), transferTime |-> JInt(2000), version |-> JStr(X)]

BaseRequestWithMover == With(BaseRequest, "moverInfo", JObj(BaseMoverInfo))

Text(o) == [utf8 |-> TRUE, json |-> "object", o |-> o]
NoObject == [k \in {} |-> JAbsent]
NonUtf8 == [utf8 |-> FALSE, json |-> "invalid", o |-> NoObject]
NotJson == [utf8 |-> TRUE, json |-> "invalid", o |-> NoObject]
NotAnObject == [utf8 |-> TRUE, json |-> "other", o |-> NoObject]

\* the records of the ingestion-loop specification
LoopRecords ==
    {NonUtf8, NotJson, NotAnObject,
     Text(With(BaseRemove, "msgType", JStr(<<"p", "i", "n", "g">>))),
     Text(With(BaseRemove, "msgType", JAbsent)),
     Text(BaseRemove), Text(BaseRequest), Text(BaseRestore), Text(BaseStore),
     Text(BaseTransfer), Text(BaseRequestWithMover),
     Text(With(BaseTransfer, "isP2p", JBool(TRUE))),
     Text(With(With(BaseTransfer, "isP2p", JBool(TRUE)), "isWrite", JStr(S_write))),
     Text(With(BaseTransfer, "transferSize", JInt(-1))),
     Text(With(BaseTransfer, "transferSize", JAbsent)),
     Text(With(With(BaseTransfer, "meanReadBandwidth", JFloat(10000)),
               "meanWriteBandwidth", JInt(20000))),
     Text(With(BaseTransfer, "meanReadBandwidth", JFloat(10000))),
     Text(With(BaseRemove, "storageInfo", JAbsent)),
     Text(With(BaseStore, "hsm", JAbsent)),
     Text(With(BaseTransfer, "cellName", JStr(N_pool_e))),
     Text(With(BaseTransfer, "status", StatusObj(1, M_failed))),
     Text(With(With(BaseRemove, "cellName", JStr(N_door)), "status",
               StatusObj(1006, M_failed)))}

\* the arguments of the ingestion-loop specification
LoopArgs ==
    [enable_message_count : BOOLEAN, shortened_cell_names : {<<>>, <<P_pool>>}]

\* the record sequences of the ingestion-loop specification
RECURSIVE SeqsUpTo(_, _)
SeqsUpTo(S, n) ==
    IF n = 0 THEN {<<>>}
    ELSE LET T == SeqsUpTo(S, n - 1) IN T \cup {Append(t, x) : t \in T, x \in S}

LoopSources == SeqsUpTo(LoopRecords, MaxRecords)

----------------------------------------------------------------------------
(* main.rs: main *)

InitWith(Args, Sources) ==
    /\ args \in Args
    /\ source \in Sources
    /\ pc = "start"
    /\ collector = Unconstructed
    /\ delivered = 0
    /\ msg = None
    /\ parsed = None

\* main up to the loop: Collector::new either returns or panics
Startup ==
    /\ pc = "start"
    /\ LET c == Collector_new(args.enable_message_count, args.shortened_cell_names)
       IN IF c.panic
          THEN pc' = "panicked" /\ UNCHANGED collector
          ELSE pc' = "loop" /\ collector' = c.v
    /\ UNCHANGED <<args, source, delivered, msg, parsed>>

\* the body of the loop for the record rec, r being what process_message does
\* with it: str::from_utf8(..)? returns from main before process_message is called
LoopBody(rec, r) ==
    IF ~rec.utf8
    THEN pc' = "exited" /\ parsed' = None /\ UNCHANGED collector
    ELSE /\ parsed' = Some(from_str(rec))
         /\ IF r.panic
            THEN pc' = "panicked" /\ UNCHANGED collector
            ELSE pc' = pc /\ collector' = r.v

\* one turn of the loop: the event source delivers its next record
MainLoop ==
    /\ pc = "loop"
    /\ delivered < Len(source)
    /\ delivered' = delivered + 1
    /\ msg' = Some(source[delivered + 1])
    /\ LoopBody(source[delivered + 1],
                process_message(collector, source[delivered + 1]))
    /\ UNCHANGED <<args, source>>

Init == InitWith(LoopArgs, LoopSources)

Next == Startup \/ MainLoop

Spec == Init /\ [][Next]_vars

----------------------------------------------------------------------------
(* The decoder on one record: every key of every record shape set to every    *)
(* kind of JSON value, integers at the edges of the integer types.            *)

S_other == <<"o", "t", "h", "e", "r">>

AltValues ==
    {JAbsent, JNull, JBool(TRUE), JBool(FALSE), JFloat(1), JArr(<<>>), JObj(NoObject),
     JStr(S_empty), JStr(S_read), JStr(S_write), JStr(S_other), JStr(S_transfer)}
    \cup {JInt(n) : n \in {-2, -1, 0, 1, 7,
                           I32_MIN - 1, I32_MIN, I32_MAX, I32_MAX + 1, U32_MAX, U32_MAX + 1,
                           I64_MIN - 1, I64_MIN, I64_MAX, I64_MAX + 1, U64_MAX, U64_MAX + 1}}

OptionalKeys ==
    {"localEndpoint", "meanReadBandwidth", "meanWriteBandwidth", "readActive",
     "readIdle", "writeActive", "moverInfo", "owner", "isP2p", "isWrite"}

BaseObjects == {BaseRemove, BaseRequest, BaseRestore, BaseStore, BaseTransfer,
                BaseRequestWithMover}

\* o with one key changed
OneKeyChanged(o) == {With(o, k, j) : k \in DOMAIN o \cup OptionalKeys, j \in AltValues}

\* o with the object under key k changed in one key
OneNestedKeyChanged(o, k) == {With(o, k, JObj(n)) : n \in OneKeyChanged(o[k].o)}

P2pValues == {JAbsent, JNull, JBool(TRUE), JBool(FALSE), JInt(1), JStr(S_read)}
ModeValues == {JAbsent, JNull, JBool(TRUE), JStr(S_read), JStr(S_write),
               JStr(S_other), JStr(S_empty)}

\* o with the two direction keys set to every pair
DirectionChanged(o) ==
    {With(With(o, "isP2p", p), "isWrite", w) : p \in P2pValues, w \in ModeValues}

DecodeObjects ==
    UNION {OneKeyChanged(o) : o \in BaseObjects}
    \cup OneNestedKeyChanged(BaseRequestWithMover, "moverInfo")
    \cup OneNestedKeyChanged(BaseTransfer, "status")
    \cup OneNestedKeyChanged(BaseTransfer, "protocolInfo")
    \cup OneNestedKeyChanged(BaseStore, "hsm")
    \cup DirectionChanged(BaseTransfer)
    \cup {With(BaseRequest, "moverInfo", JObj(n)) : n \in DirectionChanged(BaseMoverInfo)}

DecodeSources == {<<Text(o)>> : o \in DecodeObjects} \cup {<<NotJson>>, <<NotAnObject>>}

DecodeArgs == {[enable_message_count |-> FALSE, shortened_cell_names |-> <<P_pool>>]}

InitDecode == InitWith(DecodeArgs, DecodeSources)

SpecDecode == InitDecode /\ [][Next]_vars

----------------------------------------------------------------------------
(* Cell-name shortening: every prefix list and every cell name over a small   *)
(* alphabet with a hyphen and a two-byte character.                           *)

NameChars == {<<"a">>, <<"-">>, <<"C3", "A9">>}

\* the strings of at most n characters
RECURSIVE StringsUpTo(_)
StringsUpTo(n) ==
    IF n = 0 THEN {<<>>}
    ELSE LET T == StringsUpTo(n - 1) IN T \cup {t \o c : t \in T, c \in NameChars}

\* the prefix lists: at most MaxPrefixes non-empty prefixes, in every order
ShortenArgs ==
    [enable_message_count : {FALSE},
     shortened_cell_names :
         SeqsUpTo(StringsUpTo(MaxPrefixChars) \ {S_empty}, MaxPrefixes)]

ShortenSources ==
    {<<Text(With(BaseRemove, "cellName", JStr(n)))>> : n \in StringsUpTo(MaxNameChars)}

InitShorten == InitWith(ShortenArgs, ShortenSources)

SpecShorten == InitShorten /\ [][Next]_vars

----------------------------------------------------------------------------
(* The status-message rewriter on its own: MessageRewriteRules::new() and     *)
(* then rewrite, for status messages put together from a few tokens.          *)

\* "transfer to 10.0.0.1:20000 took 42 seconds, size 512 B"
M_transfer_took ==
    <<"t", "r", "a", "n", "s", "f", "e", "r", " ", "t", "o", " ", "1", "0",
      ".", "0", ".", "0", ".", "1", ":", "2", "0", "0", "0", "0", " ", "t",
      "o", "o", "k", " ", "4", "2", " ", "s", "e", "c", "o", "n", "d", "s",
      ",", " ", "s", "i", "z", "e", " ", "5", "1", "2", " ", "B">>

\* "42", "10.0.0.1:20000", "10.0.0.1", "512 B", "h.ex.org", "x.1.Ab", "1-2",
\* "failed", "/a/b"
MessageTokens ==
    {<<"4", "2">>,
     <<"1", "0", ".", "0", ".", "0", ".", "1", ":", "2", "0", "0", "0",
       "0">>,
     <<"1", "0", ".", "0", ".", "0", ".", "1">>,
     <<"5", "1", "2", " ", "B">>,
     <<"h", ".", "e", "x", ".", "o", "r", "g">>,
     <<"x", ".", "1", ".", "A", "b">>,
     <<"1", "-", "2">>,
     <<"f", "a", "i", "l", "e", "d">>,
     <<"/", "a", "/", "b">>}

\* the messages of at most n tokens, a space between two tokens
RECURSIVE MessagesUpTo(_)
MessagesUpTo(n) ==
    IF n <= 1 THEN MessageTokens
    ELSE LET T == MessagesUpTo(n - 1)
         IN T \cup {t \o <<" ">> \o k : t \in T, k \in MessageTokens}

RewriteSources == {<<m>> : m \in MessagesUpTo(MaxTokens) \cup {M_transfer_took}}

RewriteArgs == {[enable_message_count |-> TRUE, shortened_cell_names |-> <<>>]}

InitRewrite == InitWith(RewriteArgs, RewriteSources)

\* the rules are made, which compiles every pattern of RULES, and the message
\* is rewritten by them
Rewrite ==
    /\ pc = "start"
    /\ delivered' = delivered + 1
    /\ msg' = Some(source[1])
    /\ IF MessageRewriteRules_new.panic
       THEN pc' = "panicked" /\ parsed' = None
       ELSE pc' = "done"
            /\ parsed' = Some(rewrite(MessageRewriteRules_new.rules, source[1]))
    /\ UNCHANGED <<args, source, collector>>

NextRewrite == Rewrite

SpecRewrite == InitRewrite /\ [][NextRewrite]_vars

----------------------------------------------------------------------------
(* Properties *)

\* the step handled a record: the loop body ran on source[delivered + 1]
Handled == delivered' = delivered + 1

\* the last record handed over went through from_str and failed / succeeded
DecodeFailed == IsSome(parsed) /\ ~Unwrap(parsed).ok
Decoded == IsSome(parsed) /\ Unwrap(parsed).ok

\* C1: handling a record that fails to decode (invalid JSON, a missing required
\* field, an invalid direction combination) adds exactly 1 to unparsed_count and
\* leaves every other metric of the collector, message_count included, as it was.
C1_DecodeFailureOnlyCountsUnparsed ==
    [][(Handled /\ DecodeFailed') =>
           collector' = [collector EXCEPT !.unparsed_count = @ + 1]]_vars

\* a failed direction decode handled after a transfer has been recorded
C1_Witness ==
    /\ pc = "loop"
    /\ delivered = 2
    /\ DecodeFailed
    /\ Unwrap(parsed).err = "Unexpected isP2p or isWrite."
    /\ collector.unparsed_count = 1
    /\ collector.transfer_count # NoMetrics

\* the record handed over last, and its JSON object
LastRecord == Unwrap(msg)
LastObject == Unwrap(msg).o

\* C2: no record that fails to decode stops the loop: once such a record has
\* been handled, main is still in its loop, ready for the next record; it has
\* neither returned nor panicked.
C2_FailedRecordDoesNotStopTheLoop ==
    (delivered > 0 /\ ~Decoded) => pc = "loop"

\* the last record is a JSON object whose msgType is a string that names no variant
UnknownMsgType ==
    /\ IsSome(msg)
    /\ LastRecord.utf8
    /\ LastRecord.json = "object"
    /\ Get(LastObject, "msgType").t = "str"
    /\ Get(LastObject, "msgType").s \notin MessageVariants

DirectionTable(p, w) ==
    CASE p = JBool(TRUE) /\ w = JStr(S_read) -> Some("P2p")
      [] p = JBool(FALSE) /\ w = JStr(S_read) -> Some("Read")
      [] p = JBool(FALSE) /\ w = JStr(S_write) -> Some("Write")
      [] OTHER -> None

DirectionOf(o) == DirectionTable(Get(o, "isP2p"), Get(o, "isWrite"))

IsObjectOfType(tag) ==
    /\ IsSome(parsed)
    /\ LastRecord.json = "object"
    /\ Get(LastObject, "msgType") = JStr(tag)

LastIs(base, k, j) == IsSome(parsed) /\ LastRecord = Text(With(base, k, j))

\* the last record is base with key k set to an integer from -1 to max
SentinelCase(base, k, max) ==
    /\ IsSome(parsed)
    /\ LastRecord.json = "object"
    /\ Get(LastObject, k).t = "int"
    /\ Get(LastObject, k).n >= -1
    /\ Get(LastObject, k).n <= max
    /\ LastObject = With(base, k, Get(LastObject, k))

\* what -1 and the non-negative integers are to decode to
SentinelOf(j) == IF j.n = -1 THEN None ELSE Some(j.n)

\* C5: in mappedUID, mappedGID (32-bit unsigned) and transferSize (64-bit
\* unsigned), -1 decodes to missing and every non-negative integer of the
\* unsigned type decodes to present with exactly that value.
C5_SentinelTranslation ==
    /\ SentinelCase(BaseRequest, "mappedUID", U32_MAX) =>
          /\ Decoded
          /\ Unwrap(parsed).v.mapped_uid = SentinelOf(Get(LastObject, "mappedUID"))
    /\ SentinelCase(BaseRequest, "mappedGID", U32_MAX) =>
          /\ Decoded
          /\ Unwrap(parsed).v.mapped_gid = SentinelOf(Get(LastObject, "mappedGID"))
    /\ SentinelCase(BaseTransfer, "transferSize", U64_MAX) =>
          /\ Decoded
          /\ Unwrap(parsed).v.transfer_size = SentinelOf(Get(LastObject, "transferSize"))

\* the label values of the base transfer record under the prefix list <<P_pool>>
BaseTransferLabels ==
    <<P_pool, CellDomain, CellType, <<"0">>, S_read, StorageInfo>>

\* C6: a record without the key of a schema-optional field decodes with that
\* field missing; a transfer record without transferSize is counted once in
\* transfer_count, adds 0 to transfer_bytes and is not counted as unparsed.
C6_AbsentOptionalFieldDecodes ==
    /\ \A c \in {<<BaseRemove, "storageInfo", "storage_info">>,
                 <<BaseRequest, "storageInfo", "storage_info">>,
                 <<BaseRequestWithMover, "moverInfo", "mover_info">>,
                 <<BaseRequest, "owner", "owner">>,
                 <<With(With(BaseTransfer, "meanReadBandwidth", JInt(7)),
                        "meanWriteBandwidth", JInt(7)),
                   "meanReadBandwidth", "mean_read_bandwidth">>,
                 <<With(With(BaseTransfer, "meanReadBandwidth", JInt(7)),
                        "meanWriteBandwidth", JInt(7)),
                   "meanWriteBandwidth", "mean_write_bandwidth">>,
                 <<BaseTransfer, "transferSize", "transfer_size">>,
                 <<BaseRequest, "mappedUID", "mapped_uid">>,
                 <<BaseRequest, "mappedGID", "mapped_gid">>} :
          LastIs(c[1], c[2], JAbsent) =>
              /\ Decoded
              /\ Unwrap(parsed).v[c[3]] = None
              /\ collector.unparsed_count = 0
    /\ LastIs(BaseTransfer, "transferSize", JAbsent) =>
          /\ collector.transfer_count = inc(NoMetrics, BaseTransferLabels)
          /\ collector.transfer_bytes = inc_by(NoMetrics, BaseTransferLabels, 0)

\* the prefix p is followed by a hyphen at the start of name
FollowedByHyphen(p, name) ==
    Len(p) < Len(name) /\ SubSeq(name, 1, Len(p) + 1) = p \o S_hyphen

\* the longest prefix of the list that name starts with, followed by a hyphen;
\* name itself when there is none
LongestPrefixLabel(prefixes, name) ==
    LET fits == {k \in 1..Len(prefixes) : FollowedByHyphen(prefixes[k], name)}
    IN IF fits = {} THEN name
       ELSE prefixes[CHOOSE k \in fits :
                        \A j \in fits : Len(prefixes[j]) <= Len(prefixes[k])]

\* C7: the cell-name label of a recorded event is the longest configured prefix
\* that the cell name starts with, followed immediately by a hyphen, and the
\* cell name unchanged when no configured prefix fits.
C7_LongestPrefixIsTheLabel ==
    (pc = "loop" /\ Decoded /\ Unwrap(parsed).v.variant = "Remove") =>
        \A l \in DOMAIN collector.remove_count :
            l[1] = LongestPrefixLabel(args.shortened_cell_names,
                                      Unwrap(parsed).v.cell.name)

\* the label values the claim gives a decoded transfer event m
TransferLabels(m) ==
    <<shorten_cell_name(args.shortened_cell_names, m.cell.name).v,
      m.cell.domain, m.cell.type_, u32_to_string(m.status.code),
      Direction_to_string(m.direction), m.storage_info>>

\* C8: handling a decoded transfer event adds 1 to transfer_count, the event's
\* transferSize (nothing when it is missing) to transfer_bytes, and one
\* observation of transferTime / 1000 to transfer_seconds, all under the label
\* tuple (shortened cell name, cell domain, cell type, status code, direction,
\* storage info) of the event.
C8_TransferIsRecorded ==
    [][(Handled /\ Decoded' /\ Unwrap(parsed').v.variant = "Transfer") =>
          LET m == Unwrap(parsed').v
              l == TransferLabels(m)
          IN /\ CounterValue(collector'.transfer_count, l)
                    = (CounterValue(collector.transfer_count, l) + 1) % Pow2(Bits64)
             /\ CounterValue(collector'.transfer_bytes, l)
                    = (CounterValue(collector.transfer_bytes, l)
                          + (IF IsSome(m.transfer_size) THEN Unwrap(m.transfer_size)
                             ELSE 0)) % Pow2(Bits64)
             /\ BagCount(Observations(collector'.transfer_seconds, l),
                         [num |-> m.transfer_time, den |-> 1000])
                    = BagCount(Observations(collector.transfer_seconds, l),
                               [num |-> m.transfer_time, den |-> 1000]) + 1]_vars

\* the sum of the counters of a vector
RECURSIVE SumOfCounters(_)
SumOfCounters(vec) ==
    IF DOMAIN vec = {} THEN 0
    ELSE LET l == CHOOSE x \in DOMAIN vec : TRUE
         IN vec[l] + SumOfCounters([x \in DOMAIN vec \ {l} |-> vec[x]])

\* the record decodes to an event with a non-empty status message
HasStatusMessage(rec) ==
    rec.utf8 /\ from_str(rec).ok /\ from_str(rec).v.status.msg # S_empty

\* main has stopped, or has handled every record of the topic
Finished == pc \in {"exited", "panicked"} \/ (pc = "loop" /\ delivered = Len(source))

\* C9: with the feature disabled message_count never changes; with it enabled,
\* the events of the topic that decode with a non-empty status message are
\* counted in message_count, once each, and no other event is.
C9_MessageCount ==
    /\ ~args.enable_message_count => collector.message_count = NoMetrics
    /\ (args.enable_message_count /\ Finished) =>
          SumOfCounters(collector.message_count)
              = Cardinality({k \in 1..Len(source) : HasStatusMessage(source[k])})

\* C10: recording a decoded event never panics, whatever the cell name and the
\* configured prefixes.
C10_RecordingNeverPanics == Decoded => pc # "panicked"


\* "transfer to <ipv4-address-and-port> took <int> seconds, size <size>"
M_transfer_took_rewritten ==
    <<"t", "r", "a", "n", "s", "f", "e", "r", " ", "t", "o", " ", "<", "i",
      "p", "v", "4", "-", "a", "d", "d", "r", "e", "s", "s", "-", "a", "n",
      "d", "-", "p", "o", "r", "t", ">", " ", "t", "o", "o", "k", " ", "<",
      "i", "n", "t", ">", " ", "s", "e", "c", "o", "n", "d", "s", ",", " ",
      "s", "i", "z", "e", " ", "<", "s", "i", "z", "e", ">">>

Rewritten(m) == pc # "start" /\ source = <<m>>

\* C11: the rules are applied in their declared order, each to the output of
\* the one before: "transfer to 10.0.0.1:20000 took 42 seconds, size 512 B"
\* is rewritten with one address-and-port placeholder for 10.0.0.1:20000 (not
\* an address placeholder and an integer placeholder), one size placeholder
\* for 512 B and an integer placeholder for 42.
C11_RulesApplyInOrder ==
    Rewritten(M_transfer_took) =>
        pc = "done" /\ parsed = Some(M_transfer_took_rewritten)

\* C12: the rewriter is idempotent on its own output: rewriting the rewritten
\* message again gives the rewritten message, for every message made of
\* recognized patterns and plain words.
C12_RewriteIsIdempotent ==
    pc # "start" =>
        /\ pc = "done"
        /\ rewrite(MessageRewriteRules_new.rules, Unwrap(parsed)) = Unwrap(parsed)

\* C13: the dns-domain rule decides per match: a match whose last label has an
\* upper-case character ("x.1.Ab") is emitted as it is and is then still
\* rewritten by the int rule (to "x.<int>.Ab"); any other match ("h.ex.org")
\* becomes the constant placeholder "<domain-name>".
C13_DomainNameRuleDecidesPerMatch ==
    /\ Rewritten(<<"x", ".", "1", ".", "A", "b">>) =>
           /\ pc = "done"
           /\ parsed = Some(<<"x", ".", "<", "i", "n", "t", ">", ".", "A", "b">>)
    /\ Rewritten(<<"h", ".", "e", "x", ".", "o", "r", "g">>) =>
           /\ pc = "done"
           /\ parsed = Some(<<"<", "d", "o", "m", "a", "i", "n", "-",
                              "n", "a", "m", "e", ">">>)

\* the metrics of the variant of m: what recording m may change
OwnMetrics(m) ==
    CASE m.variant = "Remove" -> {"remove_count", "remove_bytes"}
      [] m.variant = "Request" -> {"request_count", "request_session_seconds"}
      [] m.variant = "Restore" ->
            {"restore_count", "restore_bytes", "restore_seconds"}
      [] m.variant = "Store" -> {"store_count", "store_bytes", "store_seconds"}
      [] m.variant = "Transfer" ->
            {"transfer_count", "transfer_bytes", "transfer_seconds"}
            \cup (IF IsSome(m.mean_read_bandwidth)
                  THEN {"transfer_mean_read_bandwidth_bytes_per_second"} ELSE {})
            \cup (IF IsSome(m.mean_write_bandwidth)
                  THEN {"transfer_mean_write_bandwidth_bytes_per_second"} ELSE {})

\* the fields of the collector that the step changes
ChangedFields == {f \in DOMAIN collector : collector'[f] # collector[f]}

\* the bytes counter of the variant of m and what recording m adds to it
BytesOf(m) ==
    CASE m.variant \in {"Remove", "Restore", "Store"} ->
            [field |-> m.variant, by |-> m.file_size]
      [] m.variant = "Transfer" ->
            [field |-> "Transfer",
             by |-> IF IsSome(m.transfer_size) THEN Unwrap(m.transfer_size) ELSE 0]
      [] OTHER -> [field |-> "none", by |-> 0]

BytesCounter(c, variant) ==
    CASE variant = "Remove" -> c.remove_bytes
      [] variant = "Restore" -> c.restore_bytes
      [] variant = "Store" -> c.store_bytes
      [] variant = "Transfer" -> c.transfer_bytes
      [] OTHER -> NoMetrics

\* C14: handling a decoded event changes no field of the collector other than
\* the metrics of the event's own variant and message_count: every other
\* variant's metrics and unparsed_count stay as they were, the read and the
\* write bandwidth histogram of a transfer change only when that bandwidth is
\* present, a request with mover info changes no transfer metric, and a bytes
\* counter that changes grows by fileSize (transferSize for a transfer).
C14_RecordingChangesOnlyOwnMetrics ==
    [][(Handled /\ Decoded') =>
          LET m == Unwrap(parsed').v
              b == BytesOf(m)
          IN /\ ChangedFields \subseteq OwnMetrics(m) \cup {"message_count"}
             /\ SumOfCounters(BytesCounter(collector', b.field))
                    - SumOfCounters(BytesCounter(collector, b.field)) \in {0, b.by}]_vars

\* a request with mover info handled after a transfer that has the read
\* bandwidth only
C14_Witness ==
    /\ pc = "loop" /\ delivered = 2 /\ Decoded
    /\ source = <<Text(With(BaseTransfer, "meanReadBandwidth", JFloat(10000))),
                  Text(BaseRequestWithMover)>>
    /\ IsSome(Unwrap(parsed).v.mover_info)
    /\ SumOfCounters(collector.request_count) = 1
    /\ SumOfCounters(collector.transfer_count) = 1
    /\ collector.transfer_mean_read_bandwidth_bytes_per_second # NoMetrics
    /\ collector.transfer_mean_write_bandwidth_bytes_per_second = NoMetrics

\* the number of records that process_message has been called on: every record
\* handed over except one that is not UTF-8, on which main returns
Calls == Cardinality({k \in 1..delivered : source[k].utf8})

\* C15: after process_message has been called on n records, unparsed_count plus
\* the sums over all label tuples of remove_count, request_count,
\* restore_count, store_count and transfer_count is n: each call adds exactly
\* 1 to exactly one of the six.
C15_RecordsAreConserved ==
    collector.unparsed_count
        + SumOfCounters(collector.remove_count)
        + SumOfCounters(collector.request_count)
        + SumOfCounters(collector.restore_count)
        + SumOfCounters(collector.store_count)
        + SumOfCounters(collector.transfer_count) = Calls

====
